---- MODULE Spec2Model ----
(***************************************************************************)
(* StratIQ dashboard: the selection held by DashboardPage, the MarketSearch *)
(* handlers that change it, and the five useQuery subscriptions of the      *)
(* panels (KPICards, AISummary, TrendChart, SWOTMatrix,                     *)
(* StrategicRecommendations) against the QueryClient built in Providers.    *)
(***************************************************************************)
EXTENDS Integers, Sequences, FiniteSets, Bags, TLC

\* ---------------------------------------------------------------- bounds
\* total number of user actions, answered requests, reconnects and garbage
\* collections in a run; requests that are not answered stay in flight
MaxSteps == 6

\* ------------------------------------------------------- program constants
\* QueryClient default `retry` (Providers sets no retry option)
DefaultRetry == 3
\* staleTime of the QueryClient
StaleTime == 0

\* ------------------------------------------------------------ value sets
Null == "NULL"
Omitted == "OMITTED"

Industries == {"Finance"}
Companies == {"Apple"}

\* a JSON value as the panels use it: undefined, null, an object (its
\* fields in insertion order) or a list
Undefined == [kind |-> "undefined", entries |-> << >>]
JsonNull == [kind |-> "null", entries |-> << >>]
EmptyObject == [kind |-> "object", entries |-> << >>]
EmptyList == [kind |-> "list", entries |-> << >>]
Obj(es) == [kind |-> "object", entries |-> es]

MetricsAB == Obj(<< <<"growth_rate", 12>>, <<"funding_volume", 5>> >>)
MetricsBA == Obj(<< <<"funding_volume", 5>>, <<"growth_rate", 12>> >>)

\* the values `metrics` of a /api/market/ response can take
MetricsValues == {Undefined, JsonNull, EmptyObject, MetricsAB, MetricsBA}

\* the ones the modelled server answers with
ServedMetrics == {Undefined, MetricsAB}

Range(s) == {s[i] : i \in 1..Len(s)}

Truthy(v) == v.kind \notin {"undefined", "null"}

\* ----------------------------------------------------------- selection
Sel(i, c) == [industry |-> i, company |-> c]
NoSelection == Sel(Null, Null)

EnabledAlways(sel) == TRUE

\* `!!(industry || company)` of every useQuery
Enabled(sel) == sel.industry # Null \/ sel.company # Null

\* ------------------------------------------------------------ query keys
\* hashKey of one key element: JSON.stringify with object keys sorted;
\* undefined inside an array serialises as null
HashValue(v) ==
    IF v.kind \in {"undefined", "null"}
    THEN [kind |-> "null", fields |-> {}]
    ELSE [kind |-> v.kind, fields |-> Range(v.entries)]

NoFingerprint == [kind |-> "none", fields |-> {}]

Key(p, sel, fp) ==
    [product |-> p, industry |-> sel.industry, company |-> sel.company, fp |-> fp]

MarketKeyNoSelection(sel) == Key("market", NoSelection, NoFingerprint)

MarketKey(sel) == Key("market", sel, NoFingerprint)
ForecastKey(sel) == Key("forecast", sel, NoFingerprint)
SwotKey(sel) == Key("strategy/swot", sel, NoFingerprint)
GrowthKey(sel) == Key("strategy/growth", sel, NoFingerprint)
InsightsKeyNoMetrics(sel, metrics) == Key("insights", sel, NoFingerprint)

InsightsKey(sel, metrics) == Key("insights", sel, HashValue(metrics))

KeySel(k) == Sel(k.industry, k.company)

OrUndefinedKeeping(x) == x

\* ------------------------------------------------------- request payloads
\* `x || undefined`: a null selector is left out of the JSON body
OrUndefined(x) == IF x = Null THEN Omitted ELSE x

\* the body as the server parses it: an object is the set of its fields
BodyData(v) == [kind |-> v.kind, fields |-> Range(v.entries)]

NoData == [kind |-> "none", fields |-> {}]

getMarketData(params) ==
    [op |-> "/api/market/", industry |-> OrUndefined(params.industry),
     company |-> OrUndefined(params.company), extra |-> "timeframe=1y",
     data |-> NoData]

getInsights(params) ==
    [op |-> "/api/insights/", industry |-> OrUndefined(params.industry),
     company |-> OrUndefined(params.company), extra |-> "",
     data |-> IF Truthy(params.data) THEN BodyData(params.data)
              ELSE BodyData(EmptyObject)]

getStrategy(params) ==
    [op |-> "/api/strategy/", industry |-> OrUndefined(params.industry),
     company |-> OrUndefined(params.company),
     extra |-> params.analysis_type, data |-> NoData]

getForecast(params) ==
    [op |-> "/api/forecast/", industry |-> OrUndefined(params.industry),
     company |-> OrUndefined(params.company),
     extra |-> "metric=growth,periods=12", data |-> BodyData(EmptyList)]

\* the values a queryFn closes over: the props and, for AISummary's second
\* query, marketData?.metrics of the render that built it
Args(sel, metrics) ==
    [industry |-> sel.industry, company |-> sel.company, data |-> metrics]

\* the request the queryFn of product p sends for the values it closed over
QueryFn(p, args) ==
    CASE p = "market" -> getMarketData(args)
      [] p = "insights" -> getInsights(args)
      [] p = "strategy/swot" ->
            getStrategy([industry |-> args.industry, company |-> args.company,
                         analysis_type |-> "swot"])
      [] p = "strategy/growth" ->
            getStrategy([industry |-> args.industry, company |-> args.company,
                         analysis_type |-> "growth"])
      [] OTHER ->
            getForecast([industry |-> OrUndefined(args.industry),
                         company |-> OrUndefined(args.company)])


\* ------------------------------------------------------------ responses
\* where a result came from: the selector of the request it answers
Origin(payload) == [industry |-> payload.industry, company |-> payload.company]
NoOrigin == [industry |-> "-", company |-> "-"]
OriginOf(sel) == [industry |-> OrUndefined(sel.industry),
                  company |-> OrUndefined(sel.company)]

NoResult == [has |-> FALSE, from |-> NoOrigin, body |-> Undefined]
Result(payload, body) == [has |-> TRUE, from |-> Origin(payload), body |-> body]

InsightsBody == Obj(<< <<"summary", 1>> >>)
SwotBody == Obj(<< <<"strengths", 1>>, <<"threats", 1>> >>)
GrowthBody == Obj(<< <<"recommendations", 1>> >>)
ForecastList == [kind |-> "list", entries |-> << <<"yhat", 7>> >>]

\* what the server can answer to a request of product p; for the market
\* product the value is the `metrics` field of the response (one of
\* metrics), for the forecast product its `forecast` field, for
\* strategy/swot its `content`
ResponseBodies(p, metrics) ==
    CASE p = "market" -> metrics
      [] p = "insights" -> {InsightsBody}
      [] p = "strategy/swot" -> {SwotBody}
      [] p = "strategy/growth" -> {GrowthBody}
      [] OTHER -> {ForecastList}

\* TrendChart's queryFn: forecast.forecast?.slice(0, 12).map(...) || []
TransformForecast(forecast) ==
    IF forecast.kind = "list"
    THEN [kind |-> "list",
          entries |-> [i \in 1..Len(forecast.entries) |->
                          <<i, forecast.entries[i][2]>>]]
    ELSE EmptyList

\* what the queryFn of product p resolves to for a response body
Resolved(p, body) == IF p = "forecast" THEN TransformForecast(body) ELSE body

CatchesErrorNever(p) == FALSE

\* TrendChart's queryFn catches the rejection and returns []
CatchesError(p) == p = "forecast"

\* ---------------------------------------------------------- query cache
Fresh ==
    [status |-> "pending", data |-> NoResult, fetchStatus |-> "idle",
     fetchFailureCount |-> 0, isRetryCancelled |-> FALSE, sleeping |-> FALSE,
     args |-> Args(NoSelection, Undefined)]

\* QueryCache.build: the entry of a key, a fresh one when there is none
Entry(c, k) == IF k \in DOMAIN c THEN c[k] ELSE Fresh

\* `data: marketData` of the useQuery on ['market', industry, company]
MarketData(sel, c) == Entry(c, MarketKey(sel)).data

\* marketData?.metrics
MarketMetrics(sel, c) ==
    IF MarketData(sel, c).has THEN MarketData(sel, c).body ELSE Undefined

\* the keys the five mounted panels subscribe to
ObsKeys(sel, c) ==
    {MarketKey(sel), ForecastKey(sel), SwotKey(sel), GrowthKey(sel),
     InsightsKey(sel, MarketMetrics(sel, c))}

InsightsEnabledNever(sel, c) == FALSE

InsightsEnabledNoGate(sel, c) == Enabled(sel)

\* `enabled` of AISummary's second query
InsightsEnabled(sel, c) == Enabled(sel) /\ MarketData(sel, c).has

EnabledKeyAllGated(k, sel, c) == InsightsEnabled(sel, c)

\* the `enabled` option of the observer of key k
EnabledKey(k, sel, c) ==
    IF k.product = "insights" THEN InsightsEnabled(sel, c) ELSE Enabled(sel)

\* the values the queryFn of the observer of key k closes over
ObsArgs(k, sel, c) ==
    Args(sel, IF k.product = "insights" THEN MarketMetrics(sel, c) ELSE Undefined)

\* Query.fetch: an idle query starts fetching with the observer's options;
\* a query that is already fetching is reused and its retries continue
Fetch(e, args) ==
    IF e.fetchStatus # "idle"
    THEN [e EXCEPT !.isRetryCancelled = FALSE]
    ELSE [e EXCEPT !.fetchStatus = "fetching", !.fetchFailureCount = 0,
                   !.isRetryCancelled = FALSE, !.sleeping = FALSE,
                   !.status = IF e.data.has THEN e.status ELSE "pending",
                   !.args = args]

StartsRequestOverData(e) == e.fetchStatus = "idle" \/ e.data.has

StartsRequestAlways(e) == TRUE

\* Query.fetch sends a request only when the query is idle
StartsRequest(e) == e.fetchStatus = "idle"

\* Query.removeObserver of the last observer: retryer.cancelRetry()
RemoveObserver(e) ==
    IF e.fetchStatus # "idle" THEN [e EXCEPT !.isRetryCancelled = TRUE] ELSE e

IsStaleFresh(e) == ~e.data.has

\* staleTime: 0 - an entry is stale as soon as it has data, so every mount
\* or option change of an enabled observer fetches (refetchOnMount: true)
IsStale(e) == ~e.data.has \/ StaleTime = 0

\* a resolved queryFn: the 'success' action of the query reducer
SetSuccess(e, result) ==
    [e EXCEPT !.status = "success", !.data = result, !.fetchStatus = "idle",
              !.fetchFailureCount = 0, !.isRetryCancelled = FALSE,
              !.sleeping = FALSE]

\* the retryer rejects: the 'error' action; data of an earlier success stays
SetError(e) ==
    [e EXCEPT !.status = "error", !.fetchStatus = "idle",
              !.fetchFailureCount = e.fetchFailureCount + 1,
              !.isRetryCancelled = FALSE, !.sleeping = FALSE]

\* the retryer after a rejected attempt: retry while failureCount < retry
\* and the retry was not cancelled, else reject
ShouldRetry(e) == e.fetchFailureCount < DefaultRetry /\ ~e.isRetryCancelled

SetFailed(e) ==
    IF ShouldRetry(e)
    THEN [e EXCEPT !.fetchFailureCount = e.fetchFailureCount + 1,
                   !.sleeping = TRUE]
    ELSE SetError(e)

\* ------------------------------------------------------------- KPICards
ZeroKPIs == [growthRate |-> 0, fundingVolume |-> 0, marketSize |-> 0,
             from |-> NoOrigin]

\* metrics.f || 0
FieldOrZero(metrics, f) ==
    IF \E e \in Range(metrics.entries) : e[1] = f
    THEN (CHOOSE e \in Range(metrics.entries) : e[1] = f)[2]
    ELSE 0

\* the body of the useEffect of KPICards
KPIEffect(k, md, sel) ==
    IF md.has /\ Truthy(md.body)
    THEN [growthRate |-> FieldOrZero(md.body, "growth_rate"),
          fundingVolume |-> FieldOrZero(md.body, "funding_volume"),
          marketSize |-> FieldOrZero(md.body, "market_size"),
          from |-> md.from]
    ELSE IF ~Enabled(sel) THEN ZeroKPIs ELSE k

\* structural sharing keeps the old reference for a deep-equal result
DeepEqual(a, b) == a.has = b.has /\ BodyData(a.body) = BodyData(b.body)


\* --------------------------------------------------------------- state
VARIABLES
    selectedIndustry,   \* DashboardPage state
    selectedCompany,    \* DashboardPage state
    searchType,         \* MarketSearch state
    searchValue,        \* MarketSearch state
    kpis,               \* KPICards state
    cache,              \* the QueryCache of the QueryClient: key -> entry
    inflight,           \* bag of requests sent and not yet answered
    issued,             \* every request sent so far
    marketOk,           \* every successful /api/market/ response so far
    note,               \* what the last step did
    pending,            \* the setter calls the running handler has still to make
    nsteps              \* number of user actions, answers, reconnects and collections so far

vars == <<selectedIndustry, selectedCompany, searchType, searchValue, kpis,
          cache, inflight, issued, marketOk, note, pending, nsteps>>

selvars == <<selectedIndustry, selectedCompany, searchType, searchValue, pending>>

CurSel == Sel(selectedIndustry, selectedCompany)

Request(k, args) == [key |-> k, payload |-> QueryFn(k.product, args)]

\* the observers that fetch after a render: an enabled observer that was
\* just mounted, was moved to another key, or has just become enabled;
\* force holds the keys an event refetches on top of that
ToFetch(sel, c, sel2, c2, force) ==
    {k \in ObsKeys(sel2, c2) :
        /\ EnabledKey(k, sel2, c2)
        /\ IsStale(Entry(c2, k))
        /\ \/ sel # sel2
           \/ k \notin ObsKeys(sel, c)
           \/ ~EnabledKey(k, sel, c)
           \/ k \in force}

\* the keys that lose their observers in a render (the panels carry the
\* selection in their React key, so a new selection unmounts all of them)
Removed(sel, c, sel2, c2) == ObsKeys(sel, c) \ ObsKeys(sel2, c2)

\* the cache after the render that follows a state change
Rendered(sel, c, sel2, c2, force) ==
    LET fetch == ToFetch(sel, c, sel2, c2, force)
        gone == Removed(sel, c, sel2, c2)
    IN  [k \in DOMAIN c2 \cup fetch |->
            IF k \in fetch
            THEN Fetch(Entry(c2, k), ObsArgs(k, sel2, c2))
            ELSE IF k \in gone
            THEN RemoveObserver(c2[k])
            ELSE c2[k]]

\* the number of observers that call Query.fetch for key k in a render:
\* KPICards and AISummary both mount an observer of the market key
FetchCalls(k, sel, sel2) == IF k.product = "market" /\ sel # sel2 THEN 2 ELSE 1

\* the number of requests these calls send for an entry: each call sends
\* one if Query.fetch finds the query idle, and the first call leaves it
\* fetching
RequestsStarted(e, args, calls) ==
    (IF StartsRequest(e) THEN 1 ELSE 0)
      + (IF calls > 1 /\ StartsRequest(Fetch(e, args)) THEN calls - 1 ELSE 0)

\* the requests sent in that render, as a bag
Sent(sel, c, sel2, c2, force) ==
    LET fetch == ToFetch(sel, c, sel2, c2, force)
        reqs == {Request(k, ObsArgs(k, sel2, c2)) : k \in fetch}
        count(r) == RequestsStarted(Entry(c2, r.key), ObsArgs(r.key, sel2, c2),
                                    FetchCalls(r.key, sel, sel2))
    IN  [r \in {x \in reqs : count(x) > 0} |-> count(r)]

\* KPICards after the render: a new selection remounts it (state back to
\* the initial zeros) and runs the effect; otherwise the effect runs when
\* marketData changed
KPIsAfter(sel, c, sel2, c2) ==
    IF sel # sel2
    THEN KPIEffect(ZeroKPIs, MarketData(sel2, c2), sel2)
    ELSE IF ~DeepEqual(MarketData(sel, c), MarketData(sel2, c2))
    THEN KPIEffect(kpis, MarketData(sel2, c2), sel2)
    ELSE kpis

\* what the last step did, for the record: whether it answered a request
\* whose key no panel observed, the keys whose fetch joined a request that
\* was in flight when the panels were remounted, and the keys that got an
\* enabled observer while their entry had status success, and whether the
\* step was a MarketSearch action that chose the subject already selected
Note(sel, c, sel2, c2, answered, force) ==
    [late |-> \E r \in answered : r.key \notin ObsKeys(sel, c),
     reselect |-> /\ sel2 = sel
                  /\ Enabled(sel2)
                  /\ c2 = c
                  /\ answered = {}
                  /\ force = {},
     rejoined |-> {k \in ToFetch(sel, c, sel2, c2, force) :
                     sel # sel2 /\ ~StartsRequest(Entry(c2, k))},
     resub |-> {k \in ToFetch(sel, c, sel2, c2, force) :
                  /\ k \notin force
                  /\ Entry(c2, k).status = "success"
                  /\ \A r \in answered : r.key # k}]

NoNote == [late |-> FALSE, reselect |-> FALSE, rejoined |-> {}, resub |-> {}]

CommitAborting(sel2, c2, answered, force, extra) ==
    LET sent == Sent(CurSel, cache, sel2, c2, force) (+) SetToBag(extra)
        kept == {r \in BagToSet(inflight) :
                   r.key \in ObsKeys(sel2, c2) /\ EnabledKey(r.key, sel2, c2)}
    IN  /\ cache' = Rendered(CurSel, cache, sel2, c2, force)
        /\ inflight' = ([r \in kept |-> inflight[r]] (-) SetToBag(answered)) (+) sent
        /\ issued' = issued \cup BagToSet(sent)
        /\ kpis' = KPIsAfter(CurSel, cache, sel2, c2)
        /\ note' = Note(CurSel, cache, sel2, c2, answered, force)

\* a state change of the selection (sel2) or of the cache (c2) followed by
\* the render it causes; answered is the request the step consumed, force
\* the keys it refetches, extra the requests the step itself sent
Commit(sel2, c2, answered, force, extra) ==
    LET sent == Sent(CurSel, cache, sel2, c2, force) (+) SetToBag(extra)
    IN  /\ cache' = Rendered(CurSel, cache, sel2, c2, force)
        /\ inflight' = (inflight (-) SetToBag(answered)) (+) sent
        /\ issued' = issued \cup BagToSet(sent)
        /\ kpis' = KPIsAfter(CurSel, cache, sel2, c2)
        /\ note' = Note(CurSel, cache, sel2, c2, answered, force)

Init ==
    /\ selectedIndustry = Null
    /\ selectedCompany = Null
    /\ searchType = "industry"
    /\ searchValue = ""
    /\ kpis = ZeroKPIs
    /\ cache = << >>
    /\ inflight = EmptyBag
    /\ issued = {}
    /\ marketOk = {}
    /\ note = NoNote
    /\ pending = << >>
    /\ nsteps = 0

\* ------------------------------------------------------- MarketSearch
\* one more user action, answer, reconnect or collection
Step ==
    /\ nsteps < MaxSteps
    /\ nsteps' = nsteps + 1

SelectRefetching(i, c) ==
    /\ Step
    /\ selectedIndustry' = i
    /\ selectedCompany' = c
    /\ marketOk' = marketOk
    /\ pending' = pending
    /\ Commit(Sel(i, c), cache, {},
              {k \in ObsKeys(Sel(i, c), cache) : EnabledKey(k, Sel(i, c), cache)}, {})

SelectMerging(i, c) ==
    /\ Step
    /\ selectedIndustry' = IF i = Null THEN selectedIndustry ELSE i
    /\ selectedCompany' = IF c = Null THEN selectedCompany ELSE c
    /\ marketOk' = marketOk
    /\ pending' = pending
    /\ Commit(Sel(selectedIndustry', selectedCompany'), cache, {}, {}, {})

Select(i, c) ==
    /\ Step
    /\ selectedIndustry' = i
    /\ selectedCompany' = c
    /\ marketOk' = marketOk
    /\ pending' = pending
    /\ Commit(Sel(i, c), cache, {}, {}, {})

handleIndustryChangeClearing(value) ==
    /\ searchType = "industry"
    /\ searchValue' = ""
    /\ searchType' = searchType
    /\ Select(IF value # "" THEN value ELSE Null, Null)

handleIndustryChange(value) ==
    /\ searchType = "industry"
    /\ searchValue' = IF searchType = "company" THEN "" ELSE value
    /\ searchType' = searchType
    /\ Select(IF value # "" THEN value ELSE Null, Null)

TrimNothing(value) == value

\* value.trim() of the values the company handler is called with
Trim(value) == IF value = " " THEN "" ELSE value

handleCompanyChange(value) ==
    /\ searchType = "company"
    /\ searchValue' = value
    /\ searchType' = searchType
    /\ Select(Null, IF Trim(value) # "" THEN Trim(value) ELSE Null)

ClickIndustry ==
    /\ searchType' = "industry"
    /\ searchValue' = ""
    /\ Select(Null, Null)

ClickCompany ==
    /\ searchType' = "company"
    /\ searchValue' = ""
    /\ Select(Null, Null)

\* ------------------------------------------------------------- network
\* a request is answered with a 2xx response carrying `body`
Resolve(r, body) ==
    /\ BagIn(r, inflight)
    /\ Step
    /\ UNCHANGED selvars
    /\ marketOk' = IF r.key.product = "market"
                   THEN marketOk \cup {[sel |-> KeySel(r.key), from |-> Origin(r.payload),
                                      metrics |-> body]}
                   ELSE marketOk
    /\ Commit(CurSel,
              [cache EXCEPT ![r.key] =
                  SetSuccess(@, Result(r.payload, Resolved(r.key.product, body)))],
              {r}, {}, {})

RejectClearing(r) ==
    /\ BagIn(r, inflight)
    /\ Step
    /\ selectedIndustry' = Null
    /\ selectedCompany' = Null
    /\ UNCHANGED <<searchType, searchValue, pending, marketOk>>
    /\ Commit(NoSelection,
              [cache EXCEPT ![r.key] =
                  IF CatchesError(r.key.product)
                  THEN SetSuccess(@, Result(r.payload, EmptyList))
                  ELSE SetFailed(@)],
              {r}, {}, {})

\* a request fails (network error or non-2xx response)
Reject(r) ==
    /\ BagIn(r, inflight)
    /\ Step
    /\ UNCHANGED <<selvars, marketOk>>
    /\ Commit(CurSel,
              [cache EXCEPT ![r.key] =
                  IF CatchesError(r.key.product)
                  THEN SetSuccess(@, Result(r.payload, EmptyList))
                  ELSE SetFailed(@)],
              {r}, {}, {})

\* the retry delay of a failed attempt is over: the retryer runs the
\* queryFn again unless the retry was cancelled meanwhile
RetryFire(k) ==
    /\ k \in DOMAIN cache
    /\ cache[k].sleeping
    /\ UNCHANGED <<selvars, marketOk, nsteps>>
    /\ IF cache[k].isRetryCancelled
       THEN Commit(CurSel, [cache EXCEPT ![k] = SetError(@)], {}, {}, {})
       ELSE Commit(CurSel, [cache EXCEPT ![k].sleeping = FALSE], {}, {},
                   {Request(k, cache[k].args)})

\* the browser comes back online: refetchOnReconnect refetches every query
\* that has an enabled observer
Reconnect ==
    /\ Step
    /\ UNCHANGED <<selvars, marketOk>>
    /\ Commit(CurSel, cache, {},
              {k \in ObsKeys(CurSel, cache) : EnabledKey(k, CurSel, cache)}, {})

\* garbage collection of a query without observers that is not fetching
Collect(k) ==
    /\ k \in DOMAIN cache
    /\ k \notin ObsKeys(CurSel, cache)
    /\ cache[k].fetchStatus = "idle"
    /\ Step
    /\ UNCHANGED <<selvars, marketOk>>
    /\ Commit(CurSel, [x \in DOMAIN cache \ {k} |-> cache[x]], {}, {}, {})

\* the values the handlers are called with: the option values of the two
\* dropdowns and, for the company handler, a value of white space only
IndustryInputs == Industries \cup {""}
CompanyInputs == Companies \cup {"", " "}

UserAction ==
    \/ \E v \in IndustryInputs : handleIndustryChange(v)
    \/ \E v \in CompanyInputs : handleCompanyChange(v)
    \/ ClickIndustry
    \/ ClickCompany

Network(metrics) ==
    \/ \E r \in BagToSet(inflight) :
          \E body \in ResponseBodies(r.key.product, metrics) : Resolve(r, body)
    \/ \E r \in BagToSet(inflight) : Reject(r)
    \/ \E k \in DOMAIN cache : RetryFire(k)
    \/ Reconnect
    \/ \E k \in DOMAIN cache : Collect(k)

Next == UserAction \/ Network(ServedMetrics)

Spec == Init /\ [][Next]_vars

\* the same dashboard against a server that answers with every value of
\* MetricsValues
NextWide == UserAction \/ Network(MetricsValues)

SpecWide == Init /\ [][NextWide]_vars

\* ------------------------------------------------------------ type check
TypeOK ==
    /\ selectedIndustry \in Industries \cup {Null}
    /\ selectedCompany \in Companies \cup {Null}
    /\ searchType \in {"industry", "company"}
    /\ \A i \in DOMAIN pending :
          pending[i].setter \in {"setSearchType", "setSearchValue",
                                 "onIndustrySelect", "onCompanySelect"}
    /\ nsteps \in 0..MaxSteps
    /\ \A k \in DOMAIN cache :
          /\ cache[k].status \in {"pending", "success", "error"}
          /\ cache[k].fetchStatus \in {"idle", "fetching"}
          /\ cache[k].fetchFailureCount \in 0..(DefaultRetry + 1)

\* ------------------------------------------------------------- views
Panels == {"kpi", "trend", "swot", "insights", "recommendations"}

\* the key of the useQuery whose data a panel renders
PanelKey(p) ==
    CASE p = "kpi" -> MarketKey(CurSel)
      [] p = "trend" -> ForecastKey(CurSel)
      [] p = "swot" -> SwotKey(CurSel)
      [] p = "insights" -> InsightsKey(CurSel, MarketMetrics(CurSel, cache))
      [] OTHER -> GrowthKey(CurSel)

\* the selector of the request whose answer a panel shows (NoOrigin when it
\* shows no fetched value): KPICards renders its kpis state, the others the
\* data of their query
Shown(p) ==
    IF p = "kpi" THEN kpis.from ELSE Entry(cache, PanelKey(p)).data.from

\* a request for r's key and payload was sent in the step
SentInStep(r) == CopiesIn(r, inflight') > CopiesIn(r, inflight)

\* the last settled attempt of the query of key k was rejected
LatestRejected(k) ==
    /\ k \in DOMAIN cache
    /\ (cache[k].status = "error" \/ cache[k].fetchFailureCount > 0)

\* key k gets an enabled observer in the step (a remount, or AISummary's
\* second query moving to k) while its entry has status success
SubscribesToSuccess(k) ==
    /\ k \in DOMAIN cache
    /\ cache[k].status = "success"
    /\ k \in ObsKeys(CurSel', cache')
    /\ EnabledKey(k, CurSel', cache')
    /\ (CurSel' # CurSel \/ k \notin ObsKeys(CurSel, cache))

\* ------------------------------------------------------------- claims

\* C1: no panel ever shows a value that answers a request made for another
\* selection than the current one, also after the answer for a selection
\* that was left arrives late.
StaleKeyGuard ==
    \A p \in Panels : Shown(p) \in {NoOrigin, OriginOf(CurSel)}

\* C1 witness: the answer to a market request of a selection that was left
\* has just arrived while another subject is selected.
LateAnswerArrived ==
    /\ note.late
    /\ CurSel # NoSelection
    /\ \E k \in DOMAIN cache :
          /\ k.product = "market"
          /\ KeySel(k) \notin {CurSel, NoSelection}
          /\ cache[k].data.has

\* C2: while nothing is selected every query of the five panels is disabled
\* and no step that ends with nothing selected sends a request.
DisabledWhenNone ==
    /\ [](CurSel = NoSelection =>
            \A k \in ObsKeys(CurSel, cache) : ~EnabledKey(k, CurSel, cache))
    /\ [][CurSel' = NoSelection =>
            \A r \in BagToSet(inflight') : ~SentInStep(r)]_vars

\* C2 witness: nothing is selected while a retry of a request of the
\* selection that was left is pending.
NoneWithPendingRetry ==
    /\ CurSel = NoSelection
    /\ \E k \in DOMAIN cache : cache[k].sleeping

\* C3 (as claimed): once a request of a key was rejected, a step that is no
\* MarketSearch action sends no request for that key.
NoAutomaticRetries ==
    [][UNCHANGED selvars =>
          \A r \in BagToSet(inflight') :
              LatestRejected(r.key) => ~SentInStep(r)]_vars

\* C4: at most one unanswered request per query key.
AtMostOneInFlight ==
    \A r1, r2 \in BagToSet(inflight) :
        r1.key = r2.key => (r1 = r2 /\ CopiesIn(r1, inflight) = 1)

\* C4 witness: the panels were remounted on a selection whose market request
\* was still unanswered, and it still is.
RejoinedInFlight ==
    \E k \in note.rejoined :
        /\ k.product = "market"
        /\ \E r \in BagToSet(inflight) : r.key = k

\* C5 (as claimed): subscribing to a key whose entry has status success
\* sends no request for that key.
ReuseWithoutRequest ==
    [][\A k \in DOMAIN cache :
          SubscribesToSuccess(k) =>
              \A r \in BagToSet(inflight') : r.key = k => ~SentInStep(r)]_vars

\* C5 (amended): subscribing an enabled query to a key whose entry has
\* status success keeps the entry's data and status (the panel shows the
\* cached value at once) and refetches it: the entry is fetching afterwards
\* and, unless a fetch of it was already going on, one request is sent.
ReuseThenRefetch ==
    [][\A k \in DOMAIN cache :
          SubscribesToSuccess(k) =>
              /\ cache'[k].data = cache[k].data
              /\ cache'[k].status = "success"
              /\ cache'[k].fetchStatus = "fetching"
              /\ (cache[k].fetchStatus = "idle" =>
                    \E r \in BagToSet(inflight') :
                        r.key = k /\ SentInStep(r) /\ CopiesIn(r, inflight') = 1)]_vars

\* C5 witness: a key was subscribed while its entry had status success and
\* is being refetched with its data kept.
ResubscribedToSuccess ==
    \E k \in note.resub :
        /\ cache[k].status = "success"
        /\ cache[k].data.has
        /\ cache[k].fetchStatus = "fetching"

\* C6 (as claimed): a rejected request that ends the fetch of its query
\* leaves the entry with status error, for every product.
FailuresSurface ==
    [][\A r \in BagToSet(inflight) :
          (Reject(r) /\ cache'[r.key].fetchStatus = "idle") =>
              cache'[r.key].status = "error"]_vars

\* C6 (amended): a rejected forecast request ends with status success and
\* the empty list (TrendChart's queryFn catches the error); a rejected
\* request of another product is retried while fewer than DefaultRetry
\* retries were made and a panel observes the key, and otherwise ends with
\* status error, the failure counted and the data of an earlier success
\* kept.
FailuresSurfaceExceptForecast ==
    [][\A r \in BagToSet(inflight) :
          Reject(r) =>
              IF r.key.product = "forecast"
              THEN /\ cache'[r.key].status = "success"
                   /\ cache'[r.key].data.body = EmptyList
              ELSE IF cache[r.key].fetchFailureCount < DefaultRetry
                      /\ ~cache[r.key].isRetryCancelled
              THEN /\ cache'[r.key].fetchStatus = "fetching"
                   /\ cache'[r.key].sleeping
                   /\ cache'[r.key].status = cache[r.key].status
              ELSE /\ cache'[r.key].status = "error"
                   /\ cache'[r.key].fetchStatus = "idle"
                   /\ cache'[r.key].fetchFailureCount
                         = cache[r.key].fetchFailureCount + 1
                   /\ cache'[r.key].data = cache[r.key].data]_vars

\* C6 witness: one query ended with status error after its last retry and
\* a forecast query ended with the empty list.
FailedAndCaught ==
    /\ \E k \in DOMAIN cache :
          cache[k].status = "error" /\ cache[k].fetchFailureCount = DefaultRetry + 1
    /\ \E k \in DOMAIN cache :
          k.product = "forecast" /\ cache[k].data.has /\ cache[k].data.body = EmptyList

\* C7 (as claimed): while the latest market request of the current selection
\* was rejected, AISummary's insights query is disabled.
UpstreamFailureDisables ==
    (CurSel # NoSelection /\ LatestRejected(MarketKey(CurSel)))
        => ~InsightsEnabled(CurSel, cache)

\* C8: every insights request follows a successful market response for the
\* same selector and carries its metrics ({} when it has none), and every
\* insights request is sent for the current selection while the insights
\* query is enabled.
InsightsAfterMarket ==
    /\ [](\A r \in issued :
            r.key.product = "insights" =>
                \E m \in marketOk :
                    /\ m.from = Origin(r.payload)
                    /\ r.payload.data = IF Truthy(m.metrics) THEN BodyData(m.metrics)
                                        ELSE BodyData(EmptyObject))
    /\ [][\A r \in BagToSet(inflight') :
            (SentInStep(r) /\ r.key.product = "insights") =>
                (KeySel(r.key) = CurSel' /\ InsightsEnabled(CurSel', cache'))]_vars

\* C8 witness: an insights request carrying the metrics of a market
\* response was sent.
InsightsSentWithMetrics ==
    \E r \in issued :
        /\ r.key.product = "insights"
        /\ r.payload.data = BodyData(MetricsAB)
        /\ \E m \in marketOk : m.metrics = MetricsAB /\ m.from = Origin(r.payload)

\* C9 (as claimed): two market results of one selection that give equal
\* insights payloads give equal insights query keys.
FingerprintEquality ==
    \A a, b \in marketOk :
        (a.sel = b.sel
           /\ getInsights(Args(a.sel, a.metrics)) = getInsights(Args(b.sel, b.metrics)))
        => InsightsKey(a.sel, a.metrics) = InsightsKey(b.sel, b.metrics)

\* C10: two requests sent under equal query keys carry the same operation
\* and the same payload.
KeyDeterminesRequest ==
    \A r1, r2 \in issued : r1.key = r2.key => r1.payload = r2.payload

\* C10 witness: a second request is in flight for an insights key whose
\* first request was answered.
SecondRequestSameKey ==
    \E r \in BagToSet(inflight) :
        /\ r.key.product = "insights"
        /\ cache[r.key].status = "success"

\* C11: at most one of selectedIndustry and selectedCompany is not null:
\* choosing an industry leaves the company null, choosing a company leaves
\* the industry null, and the mode buttons set both to null.
SelectionExclusive == selectedIndustry = Null \/ selectedCompany = Null

\* C11 witness: a company is selected after an industry had been selected
\* (the queries of the industry are still in the cache).
CompanyAfterIndustry ==
    /\ selectedCompany # Null
    /\ selectedIndustry = Null
    /\ \E k \in DOMAIN cache : k.industry # Null

\* ------------------------------------------------------- SWOTMatrix view
\* isLoading of a useQuery result: no data yet and a fetch going on
IsLoading(e) == e.status = "pending" /\ e.fetchStatus = "fetching"

QuadrantNames == {"strengths", "weaknesses", "opportunities", "threats"}

\* the quadrants that list items: (swotData.q || []) of
\* swotData = strategy?.content || {}
Quadrants(data) ==
    IF data.has /\ Truthy(data.body)
    THEN {q \in QuadrantNames : \E e \in Range(data.body.entries) : e[1] = q}
    ELSE {}

\* what SWOTMatrix renders: the placeholder without a selection, the
\* "Generating SWOT..." line while loading, else the four quadrants
SwotView(sel, c) ==
    LET e == Entry(c, SwotKey(sel))
    IN  IF ~Enabled(sel) THEN [state |-> "placeholder", quadrants |-> {}]
        ELSE IF IsLoading(e) THEN [state |-> "loading", quadrants |-> {}]
        ELSE [state |-> "matrix", quadrants |-> Quadrants(e.data)]

\* C12 (as claimed): when the strategy/swot request of the current selection
\* is rejected, the SWOT query has status error and the panel shows four
\* empty quadrants, and the entry of every other key and the KPI numbers
\* are unchanged.
SwotFailureIsolated ==
    [][\A r \in BagToSet(inflight) :
          (Reject(r) /\ r.key = SwotKey(CurSel)) =>
              /\ cache'[r.key].status = "error"
              /\ SwotView(CurSel', cache') = [state |-> "matrix", quadrants |-> {}]
              /\ \A k \in DOMAIN cache \ {r.key} : cache'[k] = cache[k]
              /\ kpis' = kpis]_vars

\* C14: the answers for one query key are stored in the order their
\* requests were sent: the data of an entry changes only in a step that
\* answers the one request in flight for its key, and a request is sent for
\* a key only when no other request for that key stays in flight, so no
\* answer of an older request can arrive after that of a newer one.
ResponseOrder ==
    [][/\ \A k \in DOMAIN cache \cap DOMAIN cache' :
             cache'[k].data # cache[k].data =>
                 \E r \in BagToSet(inflight) :
                     /\ r.key = k
                     /\ CopiesIn(r, inflight) = 1
                     /\ CopiesIn(r, inflight') = 0
                     /\ \A r2 \in BagToSet(inflight) : r2.key = k => r2 = r
       /\ \A r \in BagToSet(inflight') :
             SentInStep(r) =>
                 /\ CopiesIn(r, inflight') = 1
                 /\ \A r2 \in BagToSet(inflight') : r2.key = r.key => r2 = r]_vars

\* C14 witness: two market requests of one selection were answered one
\* after the other with different metrics and the entry holds one of them.
TwoAnswersOneKey ==
    \E a, b \in marketOk :
        /\ a.sel = b.sel
        /\ a.metrics # b.metrics
        /\ MarketKey(a.sel) \in DOMAIN cache
        /\ cache[MarketKey(a.sel)].data.body \in {a.metrics, b.metrics}

\* the React key of a panel: `kpi-${selectedIndustry}-${selectedCompany}`
\* and the like; a panel is remounted when its key changes
PanelKeyProp(p, sel) == <<p, sel.industry, sel.company>>

\* C15: a MarketSearch action that chooses what is already selected leaves
\* the selection as it is, remounts no panel, sends no request and changes
\* neither the cache nor the KPI numbers.
SelectionIdempotent ==
    [][(UserAction /\ CurSel' = CurSel) =>
          /\ \A p \in Panels : PanelKeyProp(p, CurSel') = PanelKeyProp(p, CurSel)
          /\ inflight' = inflight
          /\ issued' = issued
          /\ cache' = cache
          /\ kpis' = kpis]_vars

\* C15 witness: the subject that was selected has just been chosen again
\* while one of its queries was idle with data (a refetch would have been
\* visible) and another was still in flight.
ReselectedSubject ==
    /\ note.reselect
    /\ \E k \in ObsKeys(CurSel, cache) :
          Entry(cache, k).fetchStatus = "idle" /\ Entry(cache, k).data.has
    /\ \E r \in BagToSet(inflight) : KeySel(r.key) = CurSel

\* the keys of the queries of TrendChart, SWOTMatrix and
\* StrategicRecommendations
UngatedKeys(sel) == {ForecastKey(sel), SwotKey(sel), GrowthKey(sel)}

\* C16: while a subject is selected the forecast, strategy/swot and
\* strategy/growth queries are enabled and a request was sent for each of
\* their keys, whatever the state of the market query; the insights query
\* is the one that is disabled while the market query has no data.
IndependentOfMarket ==
    Enabled(CurSel) =>
        /\ \A k \in UngatedKeys(CurSel) :
              /\ EnabledKey(k, CurSel, cache)
              /\ k \in DOMAIN cache
              /\ \E r \in issued : r.key = k
        /\ (~MarketData(CurSel, cache).has =>
              ~EnabledKey(InsightsKey(CurSel, MarketMetrics(CurSel, cache)),
                          CurSel, cache))

\* C16 witness: the market query of the selection failed for good, no
\* insights request was sent, and the strategy/swot query was answered.
AnsweredWhileMarketFailed ==
    /\ Enabled(CurSel)
    /\ Entry(cache, MarketKey(CurSel)).status = "error"
    /\ ~MarketData(CurSel, cache).has
    /\ Entry(cache, SwotKey(CurSel)).status = "success"
    /\ \A r \in issued : r.key.product # "insights"

\* C17: the company handler called with the empty value or with white
\* space only, and the industry handler called with the empty option, set
\* both selectedIndustry and selectedCompany to null, whatever was selected.
EmptyValueResets ==
    [][/\ handleIndustryChange("") => CurSel' = NoSelection
       /\ \A v \in {"", " "} :
             handleCompanyChange(v) => CurSel' = NoSelection]_vars

\* C17 witness: the company handler was called with white space only after
\* a company had been selected, and nothing is selected.
BlankAfterCompany ==
    /\ searchValue = " "
    /\ CurSel = NoSelection
    /\ \E k \in DOMAIN cache : k.company # Null

\* C18: nothing is selected on mount, and a step that changes
\* selectedIndustry or selectedCompany is a MarketSearch action: no request
\* sent, answer, failure, retry, reconnect or collection changes them.
SelectionOnlyByUser ==
    /\ CurSel = NoSelection
    /\ [][CurSel' # CurSel => UserAction]_vars

\* C18 witness: a subject is selected while one of its queries was answered,
\* another failed and is being retried, and its insights request is out.
NetworkUnderSelection ==
    /\ Enabled(CurSel)
    /\ \E k \in ObsKeys(CurSel, cache) : Entry(cache, k).data.has
    /\ \E k \in ObsKeys(CurSel, cache) : Entry(cache, k).fetchFailureCount > 0
    /\ \E r \in BagToSet(inflight) :
          r.key.product = "insights" /\ KeySel(r.key) = CurSel

\* the metrics field each KPI number is read from
KPIFields ==
    {<<"growthRate", "growth_rate">>, <<"fundingVolume", "funding_volume">>,
     <<"marketSize", "market_size">>}

HasField(metrics, f) == \E e \in Range(metrics.entries) : e[1] = f

\* the numbers the three cards format: kpis.growthRate.toFixed(1) etc.
Displayed(k) == [f \in {x[1] : x \in KPIFields} |-> k[f]]

\* C19 (as claimed): while the market query of the selection has a result,
\* a KPI number is 0 when the result has no metrics object or the metrics
\* object lacks the field of that number.
KPIDefaultsTotal ==
    LET md == MarketData(CurSel, cache)
    IN  (Enabled(CurSel) /\ md.has) =>
            \A x \in KPIFields :
                (~Truthy(md.body) \/ ~HasField(md.body, x[2]))
                    => Displayed(kpis)[x[1]] = 0

\* C20 (as claimed): the three KPI numbers are those of the metrics of the
\* market entry of the current selection, 0 for a field it lacks and all 0
\* when the entry has no result or the result no metrics.
KPIsDerived ==
    LET md == MarketData(CurSel, cache)
    IN  \A x \in KPIFields :
            Displayed(kpis)[x[1]] =
                IF Enabled(CurSel) /\ md.has /\ Truthy(md.body)
                THEN FieldOrZero(md.body, x[2])
                ELSE 0

\* ------------------------------------------------------------- liveness
\* the network while the browser stays online and before any query is old
\* enough to be collected: requests are answered and retry timers fire
Answers(metrics) ==
    \/ \E r \in BagToSet(inflight) :
          \E body \in ResponseBodies(r.key.product, metrics) : Resolve(r, body)
    \/ \E r \in BagToSet(inflight) : Reject(r)
    \/ \E k \in DOMAIN cache : RetryFire(k)

NextLive == UserAction \/ Answers(ServedMetrics)

\* the retry timer of a failed attempt fires: the event loop runs every
\* timer that is due
SpecLive ==
    Init /\ [][NextLive]_vars /\ WF_vars(\E k \in DOMAIN cache : RetryFire(k))

\* a panel renders its loading line: isLoading of its query, which is true
\* only while the query has status pending (KPICards has no loading line)
PanelLoading(p) ==
    /\ p # "kpi"
    /\ Enabled(CurSel)
    /\ Entry(cache, PanelKey(p)).status = "pending"

\* an insights request for the selection was sent
InsightsIssued(sel) ==
    \E r \in issued : r.key.product = "insights" /\ KeySel(r.key) = sel

\* the market query of the selection shown has data
MarketSucceeded == Enabled(CurSel) /\ MarketData(CurSel, cache).has

UnitExp(f) ==
    CASE f = "growthRate" -> -2
      [] f = "fundingVolume" -> 4
      [] OTHER -> 7

DivisorExpSwapped(f) ==
    CASE f = "growthRate" -> 0
      [] f = "fundingVolume" -> 9
      [] OTHER -> 6

\* the power of ten a card divides its number by: kpis.growthRate,
\* kpis.fundingVolume / 1000000, kpis.marketSize / 1000000000
DivisorExp(f) ==
    CASE f = "growthRate" -> 0
      [] f = "fundingVolume" -> 6
      [] OTHER -> 9

RECURSIVE Pow10(_)
Pow10(n) == IF n = 0 THEN 1 ELSE 10 * Pow10(n - 1)

\* the number of tenths nearest to n * 10^e, the larger one on a tie
Tenths(n, e) ==
    IF e + 1 >= 0
    THEN n * Pow10(e + 1)
    ELSE (2 * n + Pow10(-(e + 1))) \div (2 * Pow10(-(e + 1)))

\* x.toFixed(1) for x = n * 10^e, x >= 0
ToFixed1(n, e) ==
    ToString(Tenths(n, e) \div 10) \o "." \o ToString(Tenths(n, e) % 10)

\* the text of the card of KPI f
CardValue(f, k) ==
    LET text == ToFixed1(k[f], UnitExp(f) - DivisorExp(f))
    IN  CASE f = "growthRate" -> text \o "%"
          [] f = "fundingVolume" -> "$" \o text \o "M"
          [] OTHER -> "$" \o text \o "B"

\* `cards`: the three values KPICards renders
Cards(k) == [f \in {x[1] : x \in KPIFields} |-> CardValue(f, k)]

\* growth_rate 12.4, funding_volume 500000000, market_size 900000000000
ScenarioMetrics ==
    Obj(<< <<"growth_rate", 1240>>, <<"funding_volume", 50000>>,
           <<"market_size", 90000>> >>)

\* growth_rate 7.25, funding_volume 1250000, no market_size
RoundedMetrics ==
    Obj(<< <<"growth_rate", 725>>, <<"funding_volume", 125>> >>)

\* what the server of the scenario answers to /api/market/ with
ScenarioServed == {ScenarioMetrics, RoundedMetrics}

\* the dashboard with the industry dropdown used on "Technology" and the
\* server of the scenario
NextCards ==
    \/ \E v \in {"Technology", ""} : handleIndustryChange(v)
    \/ ClickIndustry
    \/ Answers(ScenarioServed)

SpecCards == Init /\ [][NextCards]_vars

\* C21: with industry "Technology" selected and a market result carrying
\* growth_rate 12.4, funding_volume 500000000 and market_size 900000000000
\* the cards read "12.4%", "$500.0M" and "$900.0B".
KPIFormatting ==
    (/\ selectedIndustry = "Technology"
     /\ MarketData(CurSel, cache).has
     /\ MarketData(CurSel, cache).body = ScenarioMetrics)
        => Cards(kpis) = [growthRate |-> "12.4%", fundingVolume |-> "$500.0M",
                          marketSize |-> "$900.0B"]

\* C21 witness: the market query of "Technology" holds the metrics of the
\* scenario and KPICards has copied them.
ScenarioShown ==
    /\ selectedIndustry = "Technology"
    /\ MarketData(CurSel, cache).has
    /\ MarketData(CurSel, cache).body = ScenarioMetrics
    /\ kpis.marketSize = 90000


\* ------------------------------------------- handlers, setter by setter
\* one call of a state setter and the value it is called with
Call(setter, value) == [setter |-> setter, value |-> value]

\* the setter calls of handleIndustryChange(value), in the order of the code
handleIndustryChangeCalls(value) ==
    << Call("setSearchValue", value),
       Call("onIndustrySelect", IF value # "" THEN value ELSE Null),
       Call("onCompanySelect", Null) >>
      \o (IF searchType = "company" THEN << Call("setSearchValue", "") >> ELSE << >>)

\* the setter calls of handleCompanyChange(value): the company first, then
\* the industry
handleCompanyChangeCalls(value) ==
    << Call("setSearchValue", value),
       Call("onCompanySelect", IF Trim(value) # "" THEN Trim(value) ELSE Null),
       Call("onIndustrySelect", Null) >>

ModeButtonCallsKeeping(mode) ==
    << Call("setSearchType", mode), Call("setSearchValue", "") >>

\* the setter calls of the onClick of a mode button
ModeButtonCalls(mode) ==
    << Call("setSearchType", mode),
       Call("setSearchValue", ""),
       Call("onIndustrySelect", Null),
       Call("onCompanySelect", Null) >>

\* an event handler of MarketSearch starts: the calls it will make
Dispatch(calls) ==
    /\ pending = << >>
    /\ Step
    /\ pending' = calls
    /\ UNCHANGED <<selectedIndustry, selectedCompany, searchType, searchValue,
                   kpis, cache, inflight, issued, marketOk, note>>

\* the running handler makes its next setter call, and the components
\* render with the one state that call changed
ApplySetter ==
    /\ pending # << >>
    /\ LET call == Head(pending)
           set(setter, old) == IF call.setter = setter THEN call.value ELSE old
       IN  /\ searchType' = set("setSearchType", searchType)
           /\ searchValue' = set("setSearchValue", searchValue)
           /\ selectedIndustry' = set("onIndustrySelect", selectedIndustry)
           /\ selectedCompany' = set("onCompanySelect", selectedCompany)
    /\ pending' = Tail(pending)
    /\ UNCHANGED <<marketOk, nsteps>>
    /\ Commit(Sel(selectedIndustry', selectedCompany'), cache, {}, {}, {})

\* the select the form shows is the one of the current search type; a
\* handler runs to its end before the next event or answer is handled
NextSetters ==
    \/ \E v \in IndustryInputs :
          searchType = "industry" /\ Dispatch(handleIndustryChangeCalls(v))
    \/ \E v \in CompanyInputs :
          searchType = "company" /\ Dispatch(handleCompanyChangeCalls(v))
    \/ \E mode \in {"industry", "company"} : Dispatch(ModeButtonCalls(mode))
    \/ ApplySetter
    \/ pending = << >> /\ Answers(ServedMetrics)

SpecSetters == Init /\ [][NextSetters]_vars

\* C22: with every setter call of the MarketSearch handlers taken as a step
\* of its own, selectedIndustry and selectedCompany are never both set, not
\* even between two calls of one handler; and whenever a handler starts, a
\* selected company is only there in company mode and a selected industry
\* only in industry mode
SetterExclusive ==
    /\ ~(selectedIndustry # Null /\ selectedCompany # Null)
    /\ pending = << >> =>
          /\ selectedCompany # Null => searchType = "company"
          /\ selectedIndustry # Null => searchType = "industry"

\* the Industry button was clicked while a company was selected: the search
\* type is already set, the calls that clear the selection are still to come
BetweenSetters ==
    /\ pending # << >>
    /\ Head(pending).setter = "onCompanySelect"
    /\ selectedCompany # Null
    /\ searchType = "industry"


\* --------------------------------------------- search form and selection
\* C23: after every MarketSearch handler the form agrees with the selection:
\* a selected industry is shown in industry mode as the value of the select,
\* a selected company is the trimmed value of the company select in company
\* mode, and an empty value goes with no selection
SearchAgreesWithSelection ==
    /\ selectedIndustry # Null =>
          searchType = "industry" /\ searchValue = selectedIndustry
    /\ selectedCompany # Null =>
          searchType = "company" /\ selectedCompany = Trim(searchValue)
    /\ searchValue = "" => CurSel = NoSelection

\* an industry is selected and shown by the form after a company had been
\* selected in company mode
IndustryShownAfterCompany ==
    /\ selectedIndustry # Null
    /\ searchType = "industry"
    /\ searchValue = selectedIndustry
    /\ \E k \in DOMAIN cache : k.company # Null


\* ----------------------------------------------------------- mode buttons
\* C24: a click on the Industry or the Company button leaves searchValue ''
\* and nothing selected, whatever the mode and the selection were before,
\* and every request that was in flight is still in flight after it
ModeButtonsReset ==
    [][(ClickIndustry \/ ClickCompany) =>
          /\ searchValue' = ""
          /\ CurSel' = NoSelection
          /\ inflight' = inflight]_vars

\* the Company button was clicked while requests for an industry were in
\* flight: nothing is selected in company mode and they are in flight still
InFlightAfterModeClick ==
    /\ searchType = "company"
    /\ searchValue = ""
    /\ CurSel = NoSelection
    /\ \E r \in BagToSet(inflight) : r.key.industry # Null


\* ------------------------------------------------------ request selectors
\* the selector fields a request body carries
Carried(payload) == {f \in {"industry", "company"} : payload[f] # Omitted}

\* C25: every request sent carries exactly one of the fields industry and
\* company, with the value the selection of its query key has; and when a
\* request is sent for the first time, that selection is the current one
OneSelectorPerRequest ==
    [][\A r \in issued' :
          /\ Cardinality(Carried(r.payload)) = 1
          /\ \A f \in Carried(r.payload) : r.payload[f] = KeySel(r.key)[f]
          /\ r \notin issued => KeySel(r.key) = CurSel']_vars

\* requests of all four endpoints were sent for a company, and an industry
\* has been selected since
CompanyRequestsSent ==
    /\ selectedIndustry # Null
    /\ \A op \in {"/api/market/", "/api/insights/", "/api/strategy/", "/api/forecast/"} :
          \E r \in issued : /\ r.payload.op = op
                            /\ r.payload.company # Omitted
                            /\ r.payload.industry = Omitted

====
